---- MODULE Spec2Model ----
(***************************************************************************)
(* The scheduled-action core of the YouTube scheduler backend: the video   *)
(* documents and their status, the schedule-upload / schedule-delete /     *)
(* delete-video endpoints (app/routers/videos.py), the Celery tasks        *)
(* upload_video_to_youtube, delete_video_from_youtube and                  *)
(* cleanup_expired_videos (app/tasks/upload_tasks.py) and the YouTube      *)
(* adapter they call (app/services/youtube_service.py).                    *)
(*                                                                         *)
(* Granularity.  Every database operation is atomic (one MongoDB           *)
(* find_one / update_one / delete_one on one document).  An endpoint is    *)
(* split where it hands its task to the broker, the upload task where it   *)
(* starts its remote call, so that requests and tasks on the same video    *)
(* interleave.  A remote call and the write of its result are one step:    *)
(* the call reads nothing of the store, so every step of another process   *)
(* between the two can be moved before the call.                           *)
(*                                                                         *)
(* Time.  Every stored time is kept relative to datetime.utcnow(): 0 is    *)
(* "now or earlier", countdown is "one retry delay from now".  Tick lets   *)
(* countdown seconds pass.  The program only ever compares a stored time   *)
(* with the current time, so nothing it can observe is lost.               *)
(*                                                                         *)
(* app/database.py is not part of the sources: the store is a map from     *)
(* document id to document, looked up by id, and a call of a service       *)
(* method stands for the value that method computes.                       *)
(***************************************************************************)
EXTENDS Integers, FiniteSets, Sequences, TLC

(***************************************************************************)
(* Bounds of the model.                                                    *)
(***************************************************************************)
MaxTime == 1        \* a caller schedules at most MaxTime * countdown ahead
MaxTasks == 2       \* task ids the broker hands out

(***************************************************************************)
(* Program constants.                                                      *)
(***************************************************************************)
max_retries == 3    \* self.retry(..., max_retries=3)
countdown == 60     \* self.retry(..., countdown=60), seconds

\* None in an integer-valued field (a time, a task id, a remote video id)
NULL == -1
\* no channel id: the default of .get("youtube_channel_id", "")
NoChannel == ""

VideoIds == {"v1"}
UserIds == {"u1", "u2"}
ChannelIds == {"c1"}
\* the ids db.youtube_channels can hand out to inserted rows
ChannelRows == {"c1", "c2"}
\* channels on the remote platform (channel_info["channel_id"])
RemoteChannels == {"UC1"}
\* access tokens a caller can present
Tokens == {1, 2}
\* channel ids a caller can send: a stored channel, a string that is no
\* ObjectId, and a well-formed id of no stored channel
ChannelArgs == ChannelIds \cup {"bad"}
AllChannelArgs == ChannelArgs \cup {"c9"}
ReqIds == {1, 2}
TaskIds == 1..MaxTasks
\* the id of an upload task that ran long ago: its result has expired from
\* the result backend
OldTask == 0
\* the remote platform names the video a task uploads after that task
RemoteIds == TaskIds \cup {OldTask}
Times == {k * countdown : k \in 0..MaxTime}

\* class VideoStatus
UPLOADING == "uploading"
UPLOADED == "uploaded"
SCHEDULED == "scheduled"
PROCESSING == "processing"
PUBLISHED == "published"
FAILED == "failed"
DELETED == "deleted"
VideoStatus == {UPLOADING, UPLOADED, SCHEDULED, PROCESSING, PUBLISHED, FAILED, DELETED}

VARIABLES
    videos,            \* db.videos: video id -> document
    youtube_channels,  \* db.youtube_channels: channel id -> document
    tasks,             \* the Celery broker and result backend: task id -> task;
                       \* runs counts the executions of a live task's handler
    nextTask,          \* next task id the broker hands out
    requests,          \* HTTP requests in flight: request slot -> frame
    response,          \* the status code of the last HTTP response sent
    remote             \* the videos that are live on the remote platform

vars == <<videos, youtube_channels, tasks, nextTask, requests, response, remote>>

\* a document of db.videos as upload_video creates it: status uploaded and an
\* empty schedule; the top-level field youtube_channel_id is never written
NewVideo(u) ==
    [exists |-> TRUE, user_id |-> u, status |-> UPLOADED,
     upload_scheduled_at |-> NULL, delete_scheduled_at |-> NULL,
     youtube_video_id |-> NULL, youtube_url |-> NULL,
     upload_job_id |-> NULL, delete_job_id |-> NULL,
     schedule_youtube_channel_id |-> NoChannel,
     youtube_channel_id |-> NoChannel]

\* no document under this id (after delete_one)
NoVideo == [NewVideo("") EXCEPT !.exists = FALSE]

NoTask ==
    [state |-> "none", name |-> "", video_id |-> "", youtube_video_id |-> NULL,
     youtube_channel_id |-> NoChannel, eta |-> 0, retries |-> 0, runs |-> 0]

Idle == [op |-> "idle"]
\* no response sent yet
NoResponse == "none"

\* a document of db.youtube_channels as authenticate_youtube_channel inserts
\* it; access_token stands for the access / refresh token pair
NewChannel(u, rc, tok) ==
    [exists |-> TRUE, user_id |-> u, channel_id |-> rc, access_token |-> tok,
     is_active |-> TRUE]

\* no row under this id
NoChannelRow == [NewChannel("", "", 0) EXCEPT !.exists = FALSE]

Init ==
    /\ videos = [v \in VideoIds |-> NewVideo("u1")]
    /\ youtube_channels = [c \in ChannelIds |-> NewChannel("u1", "UC1", 1)]
    /\ tasks = [t \in TaskIds |-> NoTask]
    /\ nextTask = 1
    /\ requests = [r \in ReqIds |-> Idle]
    /\ response = NoResponse
    /\ remote = {}

(***************************************************************************)
(* The store.                                                              *)
(***************************************************************************)
\* db.videos.find_one({"_id": v, "user_id": u}): the document or nothing
FindOwned(v, u) == videos[v].exists /\ videos[v].user_id = u

\* db.videos.update_one({"_id": v}, {"$set": fields}): no document, no write
UpdateOne(vs, v, fields) ==
    IF vs[v].exists
    THEN [vs EXCEPT ![v] = [f \in DOMAIN vs[v] |-> IF f \in DOMAIN fields THEN fields[f] ELSE vs[v][f]]]
    ELSE vs

\* db.youtube_channels.find_one({"_id": c})
FindChannel(c) == c \in DOMAIN youtube_channels /\ youtube_channels[c].exists

(***************************************************************************)
(* The broker.                                                             *)
(***************************************************************************)
\* task.apply_async(args, eta): a new pending task under a fresh id
ApplyAsync(ts, id, name, v, yt, c, eta) ==
    [ts EXCEPT ![id] = [state |-> "pending", name |-> name, video_id |-> v,
                        youtube_video_id |-> yt, youtube_channel_id |-> c,
                        eta |-> eta, retries |-> 0, runs |-> 0]]

\* raise self.retry(exc=e, countdown=60, max_retries=3): the task is sent again
\* under the same id with retries + 1 and eta = now + countdown, unless that
\* would be more than max_retries retries: then the task fails for good
\* a task that has ended: the message is consumed, the result backend keeps
\* the task's state
Finished(task, state) ==
    [NoTask EXCEPT !.state = state, !.name = task.name, !.video_id = task.video_id]

\* a retry budget that is one too large
Retry_OneMore(task) ==
    IF task.retries + 1 > max_retries + 1
    THEN Finished(task, "failure")
    ELSE [task EXCEPT !.state = "pending", !.retries = @ + 1, !.eta = countdown]

Retry(task) ==
    IF task.retries + 1 > max_retries
    THEN Finished(task, "failure")
    ELSE [task EXCEPT !.state = "pending", !.retries = @ + 1, !.eta = countdown]

(***************************************************************************)
(* The clock.                                                              *)
(***************************************************************************)
Elapse(x) == IF x > 0 THEN x - countdown ELSE x

Waiting ==
    \/ \E t \in TaskIds : tasks[t].state = "pending" /\ tasks[t].eta > 0
    \/ \E v \in VideoIds : videos[v].upload_scheduled_at > 0 \/ videos[v].delete_scheduled_at > 0
    \/ \E r \in ReqIds : requests[r].op # "idle" /\ requests[r].scheduled_at > 0

\* countdown seconds pass
Tick ==
    /\ Waiting
    /\ tasks' = [t \in TaskIds |-> [tasks[t] EXCEPT !.eta = Elapse(@)]]
    /\ videos' = [v \in VideoIds |->
                    [videos[v] EXCEPT !.upload_scheduled_at = Elapse(@),
                                      !.delete_scheduled_at = Elapse(@)]]
    /\ requests' = [r \in ReqIds |->
                      IF requests[r].op = "idle" THEN requests[r]
                      ELSE [requests[r] EXCEPT !.scheduled_at = Elapse(@)]]
    /\ UNCHANGED <<youtube_channels, nextTask, response, remote>>

(***************************************************************************)
(* HTTP endpoints (app/routers/videos.py).  A request takes a free slot;   *)
(* its frame holds the locals the handler keeps until it submits its task. *)
(***************************************************************************)
FreeSlot(r) == requests[r].op = "idle"

\* schedule_upload, lines 266-276 and 284: 404 without the caller's video;
\* ObjectId(youtube_channel_id) raises on a malformed id before anything is
\* written: 500
\* a schedule_upload that looks the video up by its id alone
ScheduleUploadCode_AnyOwner(u, v, c) ==
    IF ~videos[v].exists THEN "404"
    ELSE IF c = "bad" THEN "500"
    ELSE "200"

ScheduleUploadCode(u, v, c) ==
    IF ~FindOwned(v, u) THEN "404"
    ELSE IF c = "bad" THEN "500"
    ELSE "200"

\* schedule_upload, lines 282-287: the $set of the schedule
ScheduleFields(at, c) ==
    [upload_scheduled_at |-> at, schedule_youtube_channel_id |-> c, status |-> SCHEDULED]

\* schedule_upload, lines 266-289
ScheduleUpload(r, u, v, at, c) ==
    /\ FreeSlot(r)
    /\ IF ScheduleUploadCode(u, v, c) # "200"
       THEN /\ response' = ScheduleUploadCode(u, v, c)
            /\ UNCHANGED <<requests, videos>>
       ELSE /\ videos' = UpdateOne(videos, v, ScheduleFields(at, c))
            /\ requests' = [requests EXCEPT ![r] =
                   [op |-> "schedule_upload", video |-> v, scheduled_at |-> at,
                    channel |-> c, youtube_video_id |-> NULL]]
            /\ UNCHANGED response
    /\ UNCHANGED <<youtube_channels, tasks, nextTask, remote>>

\* schedule_upload, lines 291-313: apply_async with eta = scheduled_at, then
\* the job id; a broker that cannot be reached makes apply_async raise: 500
ScheduleUploadSubmit(r, brokerUp) ==
    /\ requests[r].op = "schedule_upload"
    /\ IF brokerUp
       THEN /\ nextTask <= MaxTasks
            /\ tasks' = ApplyAsync(tasks, nextTask, "upload", requests[r].video, NULL,
                                   requests[r].channel, requests[r].scheduled_at)
            /\ nextTask' = nextTask + 1
            /\ videos' = UpdateOne(videos, requests[r].video, [upload_job_id |-> nextTask])
            /\ response' = "200"
       ELSE /\ response' = "500"
            /\ UNCHANGED <<videos, tasks, nextTask>>
    /\ requests' = [requests EXCEPT ![r] = Idle]
    /\ UNCHANGED <<youtube_channels, remote>>

\* schedule_delete without the check of lines 337-341
ScheduleDeleteCode_NoCheck(u, v) ==
    IF ~FindOwned(v, u) THEN "404" ELSE "200"

\* schedule_delete, lines 325-341: 404 without the caller's video, 400 when
\* the schedule holds no youtube_video_id
ScheduleDeleteCode(u, v) ==
    IF ~FindOwned(v, u) THEN "404"
    ELSE IF videos[v].youtube_video_id = NULL THEN "400"
    ELSE "200"

\* a $set that marks the video deleted at once
DeleteScheduleFields_WithStatus(at) == [delete_scheduled_at |-> at, status |-> DELETED]

\* schedule_delete, lines 347-350: the $set of the delete schedule
DeleteScheduleFields(at) == [delete_scheduled_at |-> at]

\* schedule_delete, lines 325-352: delete_scheduled_at is set; the handler
\* keeps the document it read
ScheduleDelete(r, u, v, at) ==
    /\ FreeSlot(r)
    /\ IF ScheduleDeleteCode(u, v) # "200"
       THEN /\ response' = ScheduleDeleteCode(u, v)
            /\ UNCHANGED <<requests, videos>>
       ELSE /\ videos' = UpdateOne(videos, v, DeleteScheduleFields(at))
            /\ requests' = [requests EXCEPT ![r] =
                   [op |-> "schedule_delete", video |-> v, scheduled_at |-> at,
                    channel |-> videos[v].schedule_youtube_channel_id,
                    youtube_video_id |-> videos[v].youtube_video_id]]
            /\ UNCHANGED response
    /\ UNCHANGED <<youtube_channels, tasks, nextTask, remote>>

\* schedule_delete, lines 354-381: the task carries the youtube_video_id and
\* the schedule's channel id of the document read at lines 326-329
ScheduleDeleteSubmit(r, brokerUp) ==
    /\ requests[r].op = "schedule_delete"
    /\ IF brokerUp
       THEN /\ nextTask <= MaxTasks
            /\ tasks' = ApplyAsync(tasks, nextTask, "delete", requests[r].video,
                                   requests[r].youtube_video_id, requests[r].channel,
                                   requests[r].scheduled_at)
            /\ nextTask' = nextTask + 1
            /\ videos' = UpdateOne(videos, requests[r].video, [delete_job_id |-> nextTask])
            /\ response' = "200"
       ELSE /\ response' = "500"
            /\ UNCHANGED <<videos, tasks, nextTask>>
    /\ requests' = [requests EXCEPT ![r] = Idle]
    /\ UNCHANGED <<youtube_channels, remote>>

\* delete_video, lines 224-244: the document is removed from db.videos
DeleteVideo(u, v) ==
    /\ IF ~FindOwned(v, u)
       THEN /\ response' = "404"
            /\ UNCHANGED videos
       ELSE /\ videos' = [videos EXCEPT ![v] = NoVideo]
            /\ response' = "200"
    /\ UNCHANGED <<youtube_channels, tasks, nextTask, requests, remote>>

(***************************************************************************)
(* The remote platform and the adapter (app/services/youtube_service.py).  *)
(* A remote call goes through ("ok") or fails: the token cannot be         *)
(* refreshed, or the API call raises (network, quota).  A delete of a      *)
(* video that is not on the platform raises too (the platform's 404).      *)
(* "refreshed" is a call that goes through after the expired token was     *)
(* refreshed.                                                              *)
(***************************************************************************)
Outcomes == {"ok", "refreshed", "refresh_failed", "api_error"}

\* the remote call is made and the platform accepts it
Accepted(outcome) == outcome \in {"ok", "refreshed"}

\* credentials.refresh(Request()): a new token pair, held by the credentials
\* object of the caller
Refresh(tok) == tok + 1

\* YouTubeService.refresh_credentials: the credentials, or None when the
\* refresh raises
RefreshCredentials(outcome) == outcome # "refresh_failed"

\* YouTubeService.upload_video: the new video's id, or an exception
UploadVideoOk(outcome) == Accepted(outcome)

\* what videos().delete(id=yt).execute() does on the platform
RemoteAfterDelete(yt, outcome) == IF Accepted(outcome) THEN remote \ {yt} ELSE remote

\* a delete_video that answers True whatever the platform did
YouTubeDeleteVideo_AlwaysTrue(yt, outcome) == TRUE

\* YouTubeService.delete_video: True when videos().delete() went through;
\* every exception, the platform's 404 for a video that is gone included, is
\* caught and answered with False
YouTubeDeleteVideo(yt, outcome) == Accepted(outcome) /\ yt \in remote

\* the owner removes a video on the platform itself
RemoteRemoved(yt) ==
    /\ yt \in remote
    /\ remote' = remote \ {yt}
    /\ UNCHANGED <<videos, youtube_channels, tasks, nextTask, requests, response>>

(***************************************************************************)
(* Celery tasks (app/tasks/upload_tasks.py).  A worker takes a pending     *)
(* task once its eta has come.                                             *)
(***************************************************************************)
\* a worker that takes a pending task whatever its eta
Due_NoEta(t, name) ==
    /\ tasks[t].state = "pending"
    /\ tasks[t].name = name

Due(t, name) ==
    /\ tasks[t].state = "pending"
    /\ tasks[t].name = name
    /\ tasks[t].eta <= 0

\* upload_video_to_youtube, lines 35-38, 66-76 and 85-88: the three $sets
\* a first $set that already says published
ProcessingFields_Published == [status |-> PUBLISHED]

ProcessingFields == [status |-> PROCESSING]

\* a $set of the status alone
PublishedFields_NoId(yt) == [status |-> PUBLISHED]

PublishedFields(yt) == [status |-> PUBLISHED, youtube_video_id |-> yt, youtube_url |-> yt]

\* a $set on failure that sets nothing
FailedFields_Nothing == [f \in {} |-> FAILED]

\* a $set on failure that stores an id as well
FailedFields_WithId == [status |-> FAILED, youtube_video_id |-> OldTask]

FailedFields == [status |-> FAILED]

\* upload_video_to_youtube, lines 24-38: the video and the channel are read;
\* without one of them the handler raises and lines 81-90 run; else the
\* status becomes PROCESSING
UploadStart(t) ==
    /\ Due(t, "upload")
    /\ LET task == [tasks[t] EXCEPT !.runs = @ + 1]
           v == task.video_id
       IN IF ~videos[v].exists \/ ~FindChannel(task.youtube_channel_id)
          THEN /\ videos' = UpdateOne(videos, v, FailedFields)
               /\ tasks' = [tasks EXCEPT ![t] = Retry(task)]
          ELSE /\ videos' = UpdateOne(videos, v, ProcessingFields)
               /\ tasks' = [tasks EXCEPT ![t] = [task EXCEPT !.state = "started"]]
    /\ UNCHANGED <<youtube_channels, nextTask, requests, response, remote>>

\* upload_video_to_youtube, lines 40-90: credentials, then the upload; with
\* its result the status becomes PUBLISHED and the id and url are stored; an
\* exception sets status FAILED and retries the task
UploadCall(t, outcome) ==
    /\ tasks[t].state = "started"
    /\ tasks[t].name = "upload"
    /\ IF RefreshCredentials(outcome) /\ UploadVideoOk(outcome)
       THEN /\ remote' = remote \cup {t}
            /\ videos' = UpdateOne(videos, tasks[t].video_id, PublishedFields(t))
            /\ tasks' = [tasks EXCEPT ![t] = Finished(tasks[t], "success")]
       ELSE /\ videos' = UpdateOne(videos, tasks[t].video_id, FailedFields)
            /\ tasks' = [tasks EXCEPT ![t] = Retry(tasks[t])]
            /\ UNCHANGED remote
    /\ UNCHANGED <<youtube_channels, nextTask, requests, response>>

\* a $set that clears the id and url and leaves the status
DeletedFields_NoStatus == [youtube_video_id |-> NULL, youtube_url |-> NULL]

\* delete_video_from_youtube, lines 120-130: the $set
DeletedFields == [status |-> DELETED, youtube_video_id |-> NULL, youtube_url |-> NULL]

\* delete_video_from_youtube, lines 95-139: the channel, the credentials, the
\* remote delete; on True the status becomes DELETED and the id and url None;
\* anything else retries the task and writes nothing
DeleteTask(t, outcome) ==
    /\ Due(t, "delete")
    /\ LET task == [tasks[t] EXCEPT !.runs = @ + 1]
           called == FindChannel(task.youtube_channel_id) /\ RefreshCredentials(outcome)
       IN /\ remote' = IF called THEN RemoteAfterDelete(task.youtube_video_id, outcome)
                       ELSE remote
          /\ IF called /\ YouTubeDeleteVideo(task.youtube_video_id, outcome)
             THEN /\ videos' = UpdateOne(videos, task.video_id, DeletedFields)
                  /\ tasks' = [tasks EXCEPT ![t] = Finished(task, "success")]
             ELSE /\ tasks' = [tasks EXCEPT ![t] = Retry(task)]
                  /\ UNCHANGED videos
    /\ UNCHANGED <<youtube_channels, nextTask, requests, response>>

\* a query that matches a video in any status
Expired_AnyStatus(v) ==
    /\ videos[v].exists
    /\ videos[v].delete_scheduled_at # NULL
    /\ videos[v].delete_scheduled_at <= 0

\* the query of cleanup_expired_videos, lines 149-155
Expired(v) ==
    /\ videos[v].exists
    /\ videos[v].delete_scheduled_at # NULL
    /\ videos[v].delete_scheduled_at <= 0
    /\ videos[v].status \in {PUBLISHED, SCHEDULED}
    /\ videos[v].youtube_video_id # NULL

\* cleanup_expired_videos, lines 154-162: one delete task per matching video,
\* sent with .delay (no eta), its channel argument read from the document's
\* top-level youtube_channel_id
RECURSIVE DelayAll(_, _, _)
DelayAll(vs, ts, id) ==
    IF vs = {} THEN ts
    ELSE LET v == CHOOSE x \in vs : TRUE
         IN DelayAll(vs \ {v},
                     ApplyAsync(ts, id, "delete", v, videos[v].youtube_video_id,
                                videos[v].youtube_channel_id, 0),
                     id + 1)

CleanupExpiredVideos ==
    LET found == {v \in VideoIds : Expired(v)}
    IN /\ nextTask + Cardinality(found) - 1 <= MaxTasks
       /\ tasks' = DelayAll(found, tasks, nextTask)
       /\ nextTask' = nextTask + Cardinality(found)
       /\ UNCHANGED <<videos, youtube_channels, requests, response, remote>>

\* the steps of the program, with requests in the slots R and callers that
\* send the channel ids C
Step(R, C) ==
    \/ Tick
    \/ \E r \in R, u \in UserIds, v \in VideoIds, at \in Times, c \in C :
           ScheduleUpload(r, u, v, at, c)
    \/ \E r \in R, up \in BOOLEAN : ScheduleUploadSubmit(r, up)
    \/ \E r \in R, u \in UserIds, v \in VideoIds, at \in Times :
           ScheduleDelete(r, u, v, at)
    \/ \E r \in R, up \in BOOLEAN : ScheduleDeleteSubmit(r, up)
    \/ \E u \in UserIds, v \in VideoIds : DeleteVideo(u, v)
    \/ \E t \in TaskIds : UploadStart(t)
    \/ \E t \in TaskIds, o \in Outcomes : UploadCall(t, o)
    \/ \E t \in TaskIds, o \in Outcomes : DeleteTask(t, o)
    \/ CleanupExpiredVideos
    \/ \E yt \in RemoteIds : RemoteRemoved(yt)

\* one request at a time, any number of tasks
Next == Step({1}, ChannelArgs)

Spec == Init /\ [][Next]_vars

\* two requests at a time, any number of tasks
NextTwoRequests == Step(ReqIds, ChannelArgs)

SpecTwoRequests == Init /\ [][NextTwoRequests]_vars

\* a video document after a successful upload: lines 282-287 and 301 of
\* schedule_upload, lines 66-76 of upload_video_to_youtube
PublishedVideo(u, c, t) ==
    [NewVideo(u) EXCEPT !.status = PUBLISHED, !.upload_scheduled_at = 0,
                        !.schedule_youtube_channel_id = c, !.upload_job_id = t,
                        !.youtube_video_id = t, !.youtube_url = t]

\* the store some time after the video was published: the video is live on
\* the platform, the broker holds nothing
InitPublished ==
    /\ videos = [v \in VideoIds |-> PublishedVideo("u1", "c1", OldTask)]
    /\ youtube_channels = [c \in ChannelIds |-> NewChannel("u1", "UC1", 1)]
    /\ tasks = [t \in TaskIds |-> NoTask]
    /\ nextTask = 1
    /\ requests = [r \in ReqIds |-> Idle]
    /\ response = NoResponse
    /\ remote = {OldTask}

SpecPublished == InitPublished /\ [][Next]_vars

\* a worker that has started a handler runs it to its end
SpecFair == Spec /\ \A t \in TaskIds : WF_vars(\E o \in Outcomes : UploadCall(t, o))

(***************************************************************************)
(* Channel endpoints (app/routers/youtube.py), on their own: they touch    *)
(* db.youtube_channels only.  authenticate is split between its find_one   *)
(* and its write, so that two requests interleave.                         *)
(***************************************************************************)
\* the rows find_one({"channel_id": rc, "user_id": u}) can return
ExistingChannels(u, rc) ==
    {c \in DOMAIN youtube_channels :
        /\ youtube_channels[c].exists
        /\ youtube_channels[c].user_id = u
        /\ youtube_channels[c].channel_id = rc}

\* find_one({"_id": c, "user_id": u}) on db.youtube_channels
FindOwnedChannel(c, u) == FindChannel(c) /\ youtube_channels[c].user_id = u

\* the token authenticate stores: credentials.token after refresh_credentials
StoredToken(tok, outcome) == IF outcome = "refreshed" THEN Refresh(tok) ELSE tok

\* authenticate_youtube_channel, lines 51-78: 400 without credentials or
\* without channel info; else the row of this user and remote channel is
\* looked up
Authenticate(r, u, rc, tok, outcome) ==
    /\ FreeSlot(r)
    /\ IF ~RefreshCredentials(outcome) \/ ~Accepted(outcome)
       THEN /\ response' = "400"
            /\ UNCHANGED requests
       ELSE /\ \E c \in (IF ExistingChannels(u, rc) = {} THEN {NoChannel}
                         ELSE ExistingChannels(u, rc)) :
                   requests' = [requests EXCEPT ![r] =
                       [op |-> "authenticate", user |-> u, channel_id |-> rc,
                        access_token |-> StoredToken(tok, outcome), existing_channel |-> c]]
            /\ UNCHANGED response
    /\ UNCHANGED <<videos, youtube_channels, tasks, nextTask, remote>>

\* lines 110-131: insert_one of a new active row under a fresh id
InsertChannel(u, rc, tok) ==
    LET c == CHOOSE x \in DOMAIN youtube_channels : ~youtube_channels[x].exists
    IN [youtube_channels EXCEPT ![c] = NewChannel(u, rc, tok)]

\* authenticate_youtube_channel, lines 80-135: the row found is updated with
\* the tokens, or a new row is inserted
AuthenticateWrite(r) ==
    /\ requests[r].op = "authenticate"
    /\ IF requests[r].existing_channel # NoChannel
       THEN youtube_channels' = [youtube_channels EXCEPT
                ![requests[r].existing_channel].access_token = requests[r].access_token]
       ELSE /\ \E x \in DOMAIN youtube_channels : ~youtube_channels[x].exists
            /\ youtube_channels' = InsertChannel(requests[r].user, requests[r].channel_id,
                                                 requests[r].access_token)
    /\ response' = "200"
    /\ requests' = [requests EXCEPT ![r] = Idle]
    /\ UNCHANGED <<videos, tasks, nextTask, remote>>

\* update_youtube_channel, lines 156-179: the caller's row gets the fields
\* sent, here the token
UpdateYoutubeChannel(u, c, tok) ==
    /\ IF ~FindOwnedChannel(c, u)
       THEN /\ response' = "404"
            /\ UNCHANGED youtube_channels
       ELSE /\ youtube_channels' = [youtube_channels EXCEPT ![c].access_token = tok]
            /\ response' = "200"
    /\ UNCHANGED <<videos, tasks, nextTask, requests, remote>>

\* a disconnect that removes the caller's row
DeleteYoutubeChannel_Hard(u, c) ==
    /\ IF ~FindOwnedChannel(c, u)
       THEN /\ response' = "404"
            /\ UNCHANGED youtube_channels
       ELSE /\ youtube_channels' = [youtube_channels EXCEPT ![c] = NoChannelRow]
            /\ response' = "200"
    /\ UNCHANGED <<videos, tasks, nextTask, requests, remote>>

\* delete_youtube_channel, lines 199-222: the caller's row is kept and
\* marked inactive
DeleteYoutubeChannel(u, c) ==
    /\ IF ~FindOwnedChannel(c, u)
       THEN /\ response' = "404"
            /\ UNCHANGED youtube_channels
       ELSE /\ youtube_channels' = [youtube_channels EXCEPT ![c].is_active = FALSE]
            /\ response' = "200"
    /\ UNCHANGED <<videos, tasks, nextTask, requests, remote>>

\* an empty db.youtube_channels
InitChannels ==
    /\ videos = [v \in VideoIds |-> NewVideo("u1")]
    /\ youtube_channels = [c \in ChannelRows |-> NoChannelRow]
    /\ tasks = [t \in TaskIds |-> NoTask]
    /\ nextTask = 1
    /\ requests = [r \in ReqIds |-> Idle]
    /\ response = NoResponse
    /\ remote = {}

\* two requests at a time
NextChannels ==
    \/ \E r \in ReqIds, u \in UserIds, rc \in RemoteChannels, tok \in Tokens, o \in Outcomes :
           Authenticate(r, u, rc, tok, o)
    \/ \E r \in ReqIds : AuthenticateWrite(r)
    \/ \E u \in UserIds, c \in ChannelRows, tok \in Tokens : UpdateYoutubeChannel(u, c, tok)
    \/ \E u \in UserIds, c \in ChannelRows : DeleteYoutubeChannel(u, c)

SpecChannels == InitChannels /\ [][NextChannels]_vars

\* the video and task steps together with the disconnect of a channel
NextDisconnect ==
    \/ Next
    \/ \E u \in UserIds, c \in ChannelRows : DeleteYoutubeChannel(u, c)

SpecDisconnect == Init /\ [][NextDisconnect]_vars

(***************************************************************************)
(* Properties.                                                             *)
(***************************************************************************)
\* the handler of task t runs in this step
UploadFinishes(t) ==
    /\ tasks[t].name = "upload"
    /\ tasks[t].state = "started"
    /\ tasks'[t] # tasks[t]

DeleteRuns(t) ==
    /\ tasks[t].name = "delete"
    /\ tasks[t].state = "pending"
    /\ tasks[t].eta <= 0
    /\ tasks'[t] # tasks[t]

\* the status transitions of the lifecycle table
TransitionTable ==
    {<<UPLOADED, SCHEDULED>>, <<SCHEDULED, PROCESSING>>, <<PROCESSING, PUBLISHED>>,
     <<PROCESSING, FAILED>>, <<PUBLISHED, DELETED>>, <<FAILED, SCHEDULED>>}

\* C1: every change of a video's status is a transition of the lifecycle
\* table.
C1_OnlyTableTransitions ==
    [][\A v \in VideoIds :
          (videos[v].exists /\ videos'[v].exists /\ videos'[v].status # videos[v].status)
          => <<videos[v].status, videos'[v].status>> \in TransitionTable]_vars

\* C2: a video whose status is published has a remote video id.
C2_PublishedHasRemoteId ==
    \A v \in VideoIds :
        (videos[v].exists /\ videos[v].status = PUBLISHED) => videos[v].youtube_video_id # NULL

\* a published video with a delete task waiting for it
C2_Witness ==
    \E v \in VideoIds, t \in TaskIds :
        /\ videos[v].exists /\ videos[v].status = PUBLISHED
        /\ videos[v].youtube_video_id # NULL
        /\ tasks[t].name = "delete" /\ tasks[t].video_id = v /\ tasks[t].state = "pending"

\* C3: at most one upload task per video is waiting for its first run, so a
\* re-scheduled upload is not executed for both submissions.
C3_OnePendingUploadPerVideo ==
    \A v \in VideoIds :
        Cardinality({t \in TaskIds : /\ tasks[t].name = "upload"
                                     /\ tasks[t].video_id = v
                                     /\ tasks[t].state = "pending"
                                     /\ tasks[t].runs = 0}) <= 1

C5_FailedOnlyWhenExhausted ==
    \A t \in TaskIds :
        (tasks[t].name = "upload" /\ tasks[t].state \in {"pending", "started"})
        => videos[tasks[t].video_id].status # FAILED

C8_DeleteBeforePublishRejected ==
    [][\A r \in ReqIds, u \in UserIds, v \in VideoIds, at \in Times :
          (/\ ScheduleDelete(r, u, v, at)
           /\ FindOwned(v, u)
           /\ videos[v].youtube_video_id = NULL)
          => /\ response' = "400"
             /\ UNCHANGED <<videos, tasks, nextTask, requests>>]_vars

\* a rejected schedule_delete: no delete schedule, no delete task
C8_Witness ==
    /\ response = "400"
    /\ \E v \in VideoIds :
          /\ videos[v].exists /\ videos[v].youtube_video_id = NULL
          /\ videos[v].delete_scheduled_at = NULL /\ videos[v].delete_job_id = NULL
    /\ \A t \in TaskIds : tasks[t].name # "delete"

\* C9: after a run of the sweeper that submitted a delete task, with no
\* request in flight, no video matches the sweeper's query any more, so a
\* second run right after it submits nothing.
C9_SecondSweepSubmitsNothing ==
    [][(/\ CleanupExpiredVideos
        /\ nextTask' # nextTask
        /\ \A r \in ReqIds : requests[r].op = "idle")
       => \A v \in VideoIds : ~Expired(v)']_vars

\* C10: an upload task applies its final status write only if the status it
\* wrote itself, processing, is still the video's status.
C10_NoWriteOnStaleRead ==
    [][\A t \in TaskIds :
          (UploadFinishes(t) /\ videos[tasks[t].video_id].exists)
          => videos[tasks[t].video_id].status = PROCESSING]_vars

\* C11: a schedule_upload call that sets a video's status to scheduled
\* records an upload_scheduled_at later than the time of the call.
C11_ScheduledOnlyInFuture ==
    [][\A r \in ReqIds, u \in UserIds, v \in VideoIds, at \in Times, c \in AllChannelArgs :
          (/\ ScheduleUpload(r, u, v, at, c)
           /\ videos'[v] # videos[v]
           /\ videos'[v].status = SCHEDULED)
          => videos'[v].upload_scheduled_at > 0]_vars

\* C12: a video whose status is deleted keeps that status in every step that
\* leaves its document in the store.
C12_DeletedIsTerminal ==
    [][\A v \in VideoIds :
          (videos[v].exists /\ videos[v].status = DELETED /\ videos'[v].exists)
          => videos'[v].status = DELETED]_vars

\* C13: a video document that is in the store is in the store after every
\* step.
C13_NeverPhysicallyRemoved ==
    [][\A v \in VideoIds : videos[v].exists => videos'[v].exists]_vars

\* the handler of the pending task t is executed in this step
HandlerStarts(t) ==
    /\ tasks[t].state = "pending"
    /\ tasks'[t].state # "pending" \/ tasks'[t].runs # tasks[t].runs

NotCallersVideo(u, v) == ~videos[v].exists \/ videos[v].user_id # u

InitForeignChannel ==
    /\ videos = [v \in VideoIds |-> NewVideo("u1")]
    /\ youtube_channels = [c \in ChannelIds |-> NewChannel("u2", "UC1", 1)]
    /\ tasks = [t \in TaskIds |-> NoTask]
    /\ nextTask = 1
    /\ requests = [r \in ReqIds |-> Idle]
    /\ response = NoResponse
    /\ remote = {}

SpecForeignChannel == InitForeignChannel /\ [][Next]_vars

\* the caller u has no channel c: no row, or a row of another user
NotCallersChannel(u, c) == ~FindChannel(c) \/ youtube_channels[c].user_id # u

\* C16: schedule_upload with a channel that does not exist or belongs to
\* another user answers 404 and schedules nothing, and an upload task that
\* has passed its lookups uses a channel of the video's owner.
C16_ForeignChannelIsNotFound ==
    /\ [][\A r \in ReqIds, u \in UserIds, v \in VideoIds, at \in Times, c \in AllChannelArgs :
             (ScheduleUpload(r, u, v, at, c) /\ FindOwned(v, u) /\ NotCallersChannel(u, c))
             => /\ response' = "404"
                /\ UNCHANGED <<videos, tasks, nextTask, requests>>]_vars
    /\ [](\A t \in TaskIds :
             (tasks[t].name = "upload" /\ tasks[t].state = "started"
              /\ videos[tasks[t].video_id].exists)
             => youtube_channels[tasks[t].youtube_channel_id].user_id
                    = videos[tasks[t].video_id].user_id)

\* an attempt of task t runs up to its remote call with this outcome
Attempt(t, outcome) ==
    \/ UploadCall(t, outcome)
    \/ DeleteTask(t, outcome) /\ FindChannel(tasks[t].youtube_channel_id)

\* C17: a task attempt whose credential refresh fails is not sent again.
C17_RefreshFailureNotRetried ==
    [][\A t \in TaskIds : Attempt(t, "refresh_failed") => tasks'[t].state # "pending"]_vars

\* C18: an upload attempt that finds no video document or no channel row is
\* the task's last: the task is not sent again.
C18_PermanentErrorNotRetried ==
    [][\A t \in TaskIds :
          (/\ UploadStart(t)
           /\ \/ ~videos[tasks[t].video_id].exists
              \/ ~FindChannel(tasks[t].youtube_channel_id))
          => tasks'[t].state = "failure"]_vars

\* C19: a task attempt that refreshes the channel's expired token leaves the
\* refreshed token in the channel's row.
C19_RefreshedTokenWrittenBack ==
    [][\A t \in TaskIds :
          Attempt(t, "refreshed")
          => youtube_channels'[tasks[t].youtube_channel_id].access_token
                 = Refresh(youtube_channels[tasks[t].youtube_channel_id].access_token)]_vars

C21_DisconnectIsSoftDelete ==
    [][\A c \in DOMAIN youtube_channels :
          youtube_channels[c].exists
          => /\ youtube_channels'[c].exists
             /\ (youtube_channels[c].is_active /\ ~youtube_channels'[c].is_active)
                => youtube_channels'[c] = [youtube_channels[c] EXCEPT !.is_active = FALSE]
             /\ FindChannel(c)']_vars

\* a disconnected channel: its row is there, inactive, next to an active row
\* of the other user
C21_Witness ==
    \E c, d \in DOMAIN youtube_channels :
        /\ youtube_channels[c].exists /\ ~youtube_channels[c].is_active
        /\ youtube_channels[d].exists /\ youtube_channels[d].is_active
        /\ youtube_channels[c].user_id # youtube_channels[d].user_id
        /\ response = "200"

\* task t is submitted in this step by the sweeper
SweeperSubmits(t) ==
    /\ CleanupExpiredVideos
    /\ tasks[t].state = "none"
    /\ tasks'[t].state = "pending"

\* C22: a delete task the sweeper submits carries the channel the video was
\* published through, the one its schedule names (with it the delete task
\* finds the channel's row and can delete the video).
C22_SweeperTaskCarriesChannel ==
    [][\A t \in TaskIds :
          SweeperSubmits(t)
          => tasks'[t].youtube_channel_id
                 = videos[tasks'[t].video_id].schedule_youtube_channel_id]_vars

\* C23: the sweeper submits a delete task only for a video whose status is
\* published or scheduled.
C23_SweeperSkipsHandledVideos ==
    [][\A t \in TaskIds :
          SweeperSubmits(t)
          => /\ tasks'[t].name = "delete"
             /\ videos[tasks'[t].video_id].status \in {PUBLISHED, SCHEDULED}]_vars

\* a deleted video whose delete_scheduled_at has passed, the broker with
\* ids to hand out: the sweeper has left it alone
C23_Witness ==
    \E v \in VideoIds :
        /\ videos[v].exists /\ videos[v].status = DELETED
        /\ videos[v].delete_scheduled_at = 0
        /\ nextTask <= MaxTasks
        /\ \A t \in TaskIds : tasks[t].state \in {"success", "none"}

\* C24: at most one delete task that schedule_delete submitted for a video
\* is waiting for its first run, so a re-scheduled delete is not executed for
\* both submissions.
C24_OnePendingDeletePerVideo ==
    \A v \in VideoIds :
        Cardinality({t \in TaskIds : /\ tasks[t].name = "delete"
                                     /\ tasks[t].video_id = v
                                     /\ tasks[t].youtube_channel_id # NoChannel
                                     /\ tasks[t].state = "pending"
                                     /\ tasks[t].runs = 0}) <= 1

UploadAttemptFails(t) ==
    /\ tasks[t].name = "upload"
    /\ HandlerStarts(t) \/ UploadFinishes(t)
    /\ tasks'[t].state \in {"pending", "failure"}

\* C26: an upload attempt that fails leaves the video's remote id and url
\* and the platform as they were and the video, if it is in the store, failed;
\* a video has a remote id only if an upload task of it has succeeded.
C26_FailedUploadWritesNoRemoteId ==
    /\ [][\A t \in TaskIds :
             UploadAttemptFails(t)
             => /\ videos'[tasks[t].video_id].youtube_video_id
                       = videos[tasks[t].video_id].youtube_video_id
                /\ videos'[tasks[t].video_id].youtube_url = videos[tasks[t].video_id].youtube_url
                /\ remote' = remote
                /\ videos[tasks[t].video_id].exists
                   => videos'[tasks[t].video_id].status = FAILED]_vars
    /\ [](\A v \in VideoIds :
             videos[v].youtube_video_id # NULL
             => \E t \in TaskIds : /\ tasks[t].name = "upload"
                                   /\ tasks[t].video_id = v
                                   /\ tasks[t].state = "success")

\* every attempt of the only upload task of a video has failed: the video is
\* failed and has neither remote id nor url
C26_Witness ==
    \E v \in VideoIds, t \in TaskIds :
        /\ tasks[t].name = "upload" /\ tasks[t].state = "failure" /\ tasks[t].video_id = v
        /\ \A d \in TaskIds \ {t} : tasks[d].state = "none"
        /\ videos[v].exists /\ videos[v].status = FAILED
        /\ videos[v].youtube_video_id = NULL /\ videos[v].youtube_url = NULL
        /\ remote = {}

\* C27: the step in which an upload task is taken writes processing, before
\* the adapter is called; a video becomes published, gets a remote id, or a
\* video appears on the platform only in the step in which a started upload
\* task ends in success, and then all three happen with the id the adapter
\* returned.
C27_ProcessingBeforePublished ==
    [][/\ \A t \in TaskIds :
             (tasks[t].name = "upload" /\ tasks[t].state = "pending"
              /\ tasks'[t].state = "started")
             => /\ videos'[tasks[t].video_id].status = PROCESSING
                /\ remote' = remote
       /\ \A v \in VideoIds :
             (\/ videos[v].status # PUBLISHED /\ videos'[v].status = PUBLISHED
              \/ /\ videos'[v].youtube_video_id # NULL
                 /\ videos'[v].youtube_video_id # videos[v].youtube_video_id)
             => \E t \in TaskIds :
                   /\ tasks[t].name = "upload" /\ tasks[t].video_id = v
                   /\ tasks[t].state = "started" /\ tasks'[t].state = "success"
                   /\ t \in remote'
                   /\ videos'[v].status = PUBLISHED
                   /\ videos'[v].youtube_video_id = t
       /\ \A y \in remote' \ remote :
             tasks[y].state = "started" /\ tasks'[y].state = "success"]_vars

\* between the two writes of an attempt: the task is started, the video is
\* processing and has no remote id, nothing is on the platform yet
C27_Witness ==
    \E t \in TaskIds :
        /\ tasks[t].name = "upload" /\ tasks[t].state = "started"
        /\ videos[tasks[t].video_id].exists
        /\ videos[tasks[t].video_id].status = PROCESSING
        /\ videos[tasks[t].video_id].youtube_video_id = NULL
        /\ remote = {}

\* the fields of a video document that are no part of its delete schedule
KeptByScheduleDelete == DOMAIN NoVideo \ {"delete_scheduled_at", "delete_job_id"}

\* C28: the two steps of schedule_delete change no field of a video document
\* but delete_scheduled_at and delete_job_id.
C28_ScheduleDeleteFrame ==
    [][\A r \in ReqIds :
          (\/ \E u \in UserIds, v \in VideoIds, at \in Times : ScheduleDelete(r, u, v, at)
           \/ \E up \in BOOLEAN : ScheduleDeleteSubmit(r, up))
          => \A v \in VideoIds, f \in KeptByScheduleDelete : videos'[v][f] = videos[v][f]]_vars

\* a published video after an accepted schedule_delete: delete schedule and
\* delete job set, status, remote id and upload schedule as the upload left
\* them
C28_Witness ==
    /\ response = "200"
    /\ \E v \in VideoIds, t \in TaskIds :
          /\ videos[v].exists /\ videos[v].status = PUBLISHED
          /\ videos[v].delete_scheduled_at # NULL /\ videos[v].delete_job_id = t
          /\ tasks[t].name = "delete" /\ tasks[t].state = "pending" /\ tasks[t].runs = 0
          /\ videos[v].youtube_video_id = videos[v].upload_job_id
          /\ videos[v].youtube_url = videos[v].youtube_video_id
          /\ videos[v].youtube_video_id \in remote

C31_ScheduledHasAcceptedTask ==
    \A v \in VideoIds :
        (/\ videos[v].exists
         /\ videos[v].status = SCHEDULED
         /\ \A r \in ReqIds : requests[r].op = "idle")
        => \E t \in TaskIds : tasks[t].name = "upload" /\ tasks[t].video_id = v

\* C32: when a schedule_upload call completes with its task accepted and no
\* other call is in flight, the video's upload_job_id names a task whose eta
\* is the video's upload_scheduled_at.
C32_JobIdMatchesSchedule ==
    [][\A r \in ReqIds :
          (/\ ScheduleUploadSubmit(r, TRUE)
           /\ \A q \in ReqIds : requests'[q].op = "idle"
           /\ videos[requests[r].video].exists)
          => /\ videos'[requests[r].video].upload_job_id = nextTask
             /\ tasks'[nextTask].eta = videos'[requests[r].video].upload_scheduled_at]_vars

\* C33: when a delete task that the sweeper submitted has used up its
\* retries, its video no longer matches the sweeper's query, so the next run
\* of the sweeper does not start another round of delete attempts for it and
\* the attempts for one video come to an end.
C33_DeleteAttemptsEnd ==
    [][\A t \in TaskIds :
          (/\ DeleteRuns(t)
           /\ tasks[t].youtube_channel_id = NoChannel
           /\ tasks'[t].state = "failure")
          => ~Expired(tasks[t].video_id)']_vars

\* C34: a task attempt that gets its credentials from a channel's row and
\* goes on to the adapter finds that row active.
C34_NoCallForInactiveChannel ==
    [][\A t \in TaskIds, o \in Outcomes :
          (Attempt(t, o) /\ RefreshCredentials(o))
          => youtube_channels[tasks[t].youtube_channel_id].is_active]_vars

C37_NeverStuckInProcessing ==
    /\ \A t \in TaskIds : (tasks[t].state = "started") ~> (tasks[t].state # "started")
    /\ [](\A v \in VideoIds :
             (videos[v].exists /\ videos[v].status = PROCESSING)
             => \E t \in TaskIds : /\ tasks[t].name = "upload"
                                   /\ tasks[t].video_id = v
                                   /\ tasks[t].state \in {"pending", "started"})

\* both upload tasks of a video have ended, one in success and one in
\* failure, and the video is published or failed
C37_Witness ==
    \E v \in VideoIds, t, d \in TaskIds :
        /\ tasks[t].name = "upload" /\ tasks[t].state = "success" /\ tasks[t].video_id = v
        /\ tasks[d].name = "upload" /\ tasks[d].state = "failure" /\ tasks[d].video_id = v
        /\ videos[v].exists /\ videos[v].status \in {PUBLISHED, FAILED}
====
